---- MODULE Spec2Model ----
(***************************************************************************)
(* Realtor Media API (src/main.py): the upload handler, the listing        *)
(* handler and the diagnostics handler, over the storage directory and the *)
(* document store.                                                         *)
(*                                                                         *)
(* Text is a sequence of one-character strings, so that prefix tests,      *)
(* slicing and os.path.splitext are computed and not assumed.  A Python    *)
(* Optional is a record: None, or Some(v).                                 *)
(***************************************************************************)
EXTENDS Integers, Sequences, FiniteSets, TLC

VARIABLES
    files,    \* the storage directory: file name -> number of bytes in it
    store,    \* the "media" collection, in insertion order
    up,       \* the upload requests in flight, one per slot
    used,     \* the tokens uuid4 has handed out
    resp,     \* the response the GET handler that ran in the last step returned
    environ   \* the process environment

vars == <<files, store, up, used, resp, environ>>

(* ------------------------------ bounds -------------------------------- *)

NumUploads == 2     \* upload requests in one run, in flight together or not
MaxBytes   == 1     \* largest payload, in bytes
MaxTime    == 2     \* creation timestamps the store hands out: 1..MaxTime

(* ------------------------------ text ---------------------------------- *)

None    == [isNone |-> TRUE]
Some(v) == [isNone |-> FALSE, val |-> v]

\* Python truthiness of an Optional[str]: None and "" are falsy.
Truthy(o) == (~o.isNone) /\ o.val # <<>>

\* o or d
OrElse(o, d) == IF Truthy(o) THEN o.val ELSE d

StartsWith(s, prefix) ==
    /\ Len(s) >= Len(prefix)
    /\ SubSeq(s, 1, Len(prefix)) = prefix

\* s[:n]
Prefix(s, n) == SubSeq(s, 1, IF Len(s) < n THEN Len(s) ELSE n)

\* s.rfind(c), 1-based; 0 when c does not occur
RFind(s, c) ==
    LET hits == {i \in 1..Len(s) : s[i] = c}
    IN  IF hits = {} THEN 0 ELSE CHOOSE i \in hits : \A j \in hits : j <= i

\* os.path.splitext(p)[1]: the text from the last dot, when that dot comes
\* after the last separator and some character before it, in the last
\* component, is not a dot
SplitExt(p) ==
    LET sepIndex == RFind(p, "/")
        dotIndex == RFind(p, ".")
    IN  IF /\ dotIndex > sepIndex
           /\ \E i \in (sepIndex + 1)..(dotIndex - 1) : p[i] # "."
        THEN SubSeq(p, dotIndex, Len(p))
        ELSE <<>>

ImagePrefix == <<"i", "m", "a", "g", "e", "/">>
VideoPrefix == <<"v", "i", "d", "e", "o", "/">>
OctetStream == <<"application/octet-stream">>
ImagePng    == ImagePrefix \o <<"p", "n", "g">>
VideoMp4    == VideoPrefix \o <<"m", "p", "4">>
TextPlain   == <<"t", "e", "x", "t", "/", "p", "l", "a", "i", "n">>
ImageNoSlash == <<"i", "m", "a", "g", "e">>
DotJpg      == <<".", "j", "p", "g">>
DotMp4      == <<".", "m", "p", "4">>
DotPng      == <<".", "p", "n", "g">>

APng   == <<"a">> \o DotPng
DotEnv == <<".", "e", "n", "v">>
ABSepC == <<"a", ".", "b", "/", "c">>

\* the file parts a client may send: the declared content type and the
\* file name, each of which may be missing
FileParts ==
    {[content_type |-> Some(ImagePng),     filename |-> Some(APng)],
     [content_type |-> Some(VideoMp4),     filename |-> None],
     [content_type |-> Some(VideoMp4),     filename |-> Some(DotEnv)],
     [content_type |-> Some(VideoMp4),     filename |-> Some(ABSepC)],
     [content_type |-> None,               filename |-> Some(APng)],
     [content_type |-> Some(TextPlain),    filename |-> None],
     [content_type |-> Some(ImageNoSlash), filename |-> Some(APng)]}

Titles       == {<<"t">>}
Descriptions == {None}
Payloads     == {MaxBytes}
HexTokens    == <<"a1", "b2", "c3", "d4", "e5", "f6">>
Slots        == 1..NumUploads

(* ------------------------------ upload -------------------------------- *)

\* the classification of a content type
KindDefaultImage(content_type) ==
    IF StartsWith(content_type, VideoPrefix) THEN "video" ELSE "image"

KindWithoutSlash(content_type) ==
    IF StartsWith(content_type, SubSeq(VideoPrefix, 1, 5)) THEN "video"
    ELSE IF StartsWith(content_type, SubSeq(ImagePrefix, 1, 5)) THEN "image"
    ELSE "other"

Kind(content_type) ==
    IF StartsWith(content_type, VideoPrefix) THEN "video"
    ELSE IF StartsWith(content_type, ImagePrefix) THEN "image"
    ELSE "other"

\* the extension of the stored file
Ext(filename, kind) ==
    LET e == SplitExt(OrElse(filename, <<>>))
    IN  IF e # <<>> THEN e
        ELSE IF kind = "video" THEN DotMp4 ELSE DotJpg

\* the name of the stored file
UniqueNameFromExt(hex, ext) == <<"upload">> \o ext

UniqueName(hex, ext) == <<hex>> \o ext

\* the public URL of the stored file
Url(unique_name) ==
    LET base_url == OrElse(environ.PUBLIC_BACKEND_URL, <<>>)
    IN  IF base_url = <<>> THEN <<"/uploads/">> \o unique_name
        ELSE base_url \o <<"/uploads/">> \o unique_name

\* the directory after a file is created or rewritten
Put(fs, name, n) == [x \in DOMAIN fs \cup {name} |-> IF x = name THEN n ELSE fs[x]]

\* the directory after os.remove(name)
RemoveKeeps(fs, name) == fs

Remove(fs, name) == [x \in DOMAIN fs \ {name} |-> fs[x]]

\* no response of a GET handler is on its way
NoResponse ==
    [op |-> "none", status |-> 0, items |-> <<>>, fetched |-> None, body |-> None]

Idle ==
    [pc |-> "idle", status |-> 0, detail |-> "none", content_type |-> None,
     kind |-> "other", unique_name |-> <<>>, contents |-> 0, size |-> 0,
     title |-> <<>>, description |-> None, removed |-> "no", inserted |-> 0]

\* the request ends with an error response
Fail(u, status, detail) == [u EXCEPT !.pc = "done", !.status = status, !.detail = detail]

Uuid4HexAtImport == HexTokens[1]

\* uuid4().hex: a token that was not handed out before (a 128-bit random
\* value; which of the unused tokens is drawn makes no difference, so the
\* first one is)
Uuid4Hex == HexTokens[Cardinality(used) + 1]

\* lines 76-89: a request arrives; the content type is validated, the file
\* name is drawn, and the handler suspends at `await file.read()`.
\* Requests take the slots in the order they arrive.
Receive(p) ==
    /\ up[p].pc = "idle"
    /\ \A q \in 1..(p - 1) : up[q].pc # "idle"
    /\ \E part \in FileParts, n \in Payloads,
          title \in Titles, description \in Descriptions :
        LET content_type == OrElse(part.content_type, OctetStream)
            kind == Kind(content_type)
            u0 == [Idle EXCEPT !.content_type = part.content_type, !.kind = kind,
                               !.title = title, !.description = description]
        IN  IF kind = "other"
            THEN /\ up' = [up EXCEPT ![p] = Fail(u0, 400, "validation")]
                 /\ UNCHANGED used
            ELSE /\ used' = used \cup {Uuid4Hex}
                 /\ up' = [up EXCEPT ![p] =
                        [u0 EXCEPT !.pc = "read",
                                   !.unique_name = UniqueName(Uuid4Hex, Ext(part.filename, kind)),
                                   !.contents = n]]
    /\ resp' = NoResponse
    /\ UNCHANGED <<files, store, environ>>

\* lines 89-90: the payload is read and open(dest_path, "wb") creates or
\* truncates the file; or the read fails, or the open fails
OpenFile(p) ==
    /\ up[p].pc = "read"
    /\ \/ /\ files' = Put(files, up[p].unique_name, 0)
          /\ up' = [up EXCEPT ![p].pc = "write"]
       \/ /\ up' = [up EXCEPT ![p] = Fail(@, 500, "io")]
          /\ UNCHANGED files
    /\ resp' = NoResponse
    /\ UNCHANGED <<store, used, environ>>

\* lines 90-91: the payload is written and the file closed, or the write
\* fails with some part of the payload on disk
WriteFile(p) ==
    /\ up[p].pc = "write"
    /\ \/ /\ files' = Put(files, up[p].unique_name, up[p].contents)
          /\ up' = [up EXCEPT ![p].pc = "getsize"]
       \/ \E k \in 0..up[p].contents :
          /\ files' = Put(files, up[p].unique_name, k)
          /\ up' = [up EXCEPT ![p] = Fail(@, 500, "io")]
    /\ resp' = NoResponse
    /\ UNCHANGED <<store, used, environ>>

\* line 92: os.path.getsize(dest_path)
GetSize(p) ==
    /\ up[p].pc = "getsize"
    /\ \/ /\ up[p].unique_name \in DOMAIN files
          /\ up' = [up EXCEPT ![p].pc = "db", ![p].size = files[up[p].unique_name]]
       \/ up' = [up EXCEPT ![p] = Fail(@, 500, "io")]
    /\ resp' = NoResponse
    /\ UNCHANGED <<files, store, used, environ>>

\* lines 102-107: the document handed to the store
MediaDoc(u) ==
    [title |-> u.title, description |-> u.description, kind |-> u.kind,
     filename |-> u.unique_name, url |-> Url(u.unique_name), size |-> u.size,
     content_type |-> OrElse(u.content_type, OctetStream)]

\* the creation timestamps the store may assign; None: the field is absent
CreatedAts == {None} \cup {Some(t) : t \in 1..MaxTime}

\* create_document: the record as the store keeps it, with the identifier
\* and the creation timestamp the store assigns
CreateDocument(doc, oid, created_at) ==
    [_id |-> [oid |-> oid], created_at |-> created_at,
     title |-> doc.title, description |-> doc.description, kind |-> doc.kind,
     filename |-> doc.filename, url |-> doc.url, size |-> doc.size,
     content_type |-> doc.content_type]

\* lines 99-109 and 117: the record is built and inserted, and the request
\* ends with 200; or building or inserting it raises, and the handler goes
\* on to clean up
SaveMetadata(p) ==
    /\ up[p].pc = "db"
    /\ \/ \E created_at \in CreatedAts :
          LET oid == Len(store) + 1
          IN  /\ store' = Append(store, CreateDocument(MediaDoc(up[p]), oid, created_at))
              /\ up' = [up EXCEPT ![p].pc = "done", ![p].status = 200,
                                  ![p].inserted = oid]
       \/ /\ up' = [up EXCEPT ![p].pc = "cleanup"]
          /\ UNCHANGED store
    /\ resp' = NoResponse
    /\ UNCHANGED <<files, used, environ>>

\* lines 110-115: os.remove(dest_path), its failure swallowed, then 500
Cleanup(p) ==
    /\ up[p].pc = "cleanup"
    /\ \/ /\ up[p].unique_name \in DOMAIN files
          /\ files' = Remove(files, up[p].unique_name)
          /\ up' = [up EXCEPT ![p] = Fail([@ EXCEPT !.removed = "ok"], 500, "database")]
       \/ /\ UNCHANGED files
          /\ up' = [up EXCEPT ![p] = Fail([@ EXCEPT !.removed = "failed"], 500, "database")]
    /\ resp' = NoResponse
    /\ UNCHANGED <<store, used, environ>>

(* ------------------------------ listing ------------------------------- *)

DefaultLimit == 100
Limits == {1, DefaultLimit}

\* get_documents("media", {}, limit): copies of the first `limit` records
GetDocuments(limit) ==
    SubSeq(store, 1, IF Len(store) < limit THEN Len(store) ELSE limit)

\* the sort key, x.get("created_at")
SortKey(x) == x.created_at

\* list.sort compares keys with <; comparing None with anything raises,
\* and every element of a list of two or more is compared at least once
SortRaises(items) ==
    /\ Len(items) >= 2
    /\ \E i \in 1..Len(items) : SortKey(items[i]).isNone

\* x put into a list sorted by descending key, after the elements whose key
\* is not smaller (the sort is stable)
RECURSIVE InsertDesc(_, _)
InsertDesc(x, sorted) ==
    IF sorted = <<>> THEN <<x>>
    ELSE IF SortKey(Head(sorted)).val >= SortKey(x).val
         THEN <<Head(sorted)>> \o InsertDesc(x, Tail(sorted))
         ELSE <<x>> \o sorted

RECURSIVE SortAscending(_)
SortAscending(items) ==
    IF Len(items) <= 1 THEN items
    ELSE LET rest == SortAscending(SubSeq(items, 1, Len(items) - 1))
             x == items[Len(items)]
             before == {i \in 1..Len(rest) : SortKey(rest[i]).val <= SortKey(x).val}
         IN  SubSeq(rest, 1, Cardinality(before)) \o <<x>>
                \o SubSeq(rest, Cardinality(before) + 1, Len(rest))

\* items.sort(key=..., reverse=True), when no comparison raises
RECURSIVE SortDescending(_)
SortDescending(items) ==
    IF Len(items) <= 1 THEN items
    ELSE InsertDesc(items[Len(items)], SortDescending(SubSeq(items, 1, Len(items) - 1)))

\* the orders a list may be left in
Reorderings(items) ==
    LET n == Len(items)
        bijections == {f \in [1..n -> 1..n] : \A i, j \in 1..n : f[i] = f[j] => i = j}
    IN  {[i \in 1..n |-> items[f[i]]] : f \in bijections}

\* lines 130-133: the sorted list; when the sort raises, the exception is
\* swallowed and the list is left holding the same items in some order
SortOutcomes(items) ==
    IF SortRaises(items) THEN Reorderings(items) ELSE {SortDescending(items)}

\* str(ObjectId)
Str(id) == [str |-> id.oid]

\* lines 135-137, for one item
Normalize(it) == [it EXCEPT !._id = Str(@)]

\* GET /api/media: get_documents raises and the answer is 500; or the
\* records are fetched, sorted and normalised.  resp.fetched keeps what
\* get_documents returned.
ListMedia ==
    /\ \E limit \in Limits :
        \/ resp' = [NoResponse EXCEPT !.op = "list", !.status = 500]
        \/ LET fetched == GetDocuments(limit)
           IN  \E sorted \in SortOutcomes(fetched) :
                 resp' = [NoResponse EXCEPT
                            !.op = "list", !.status = 200, !.fetched = Some(fetched),
                            !.items = [i \in 1..Len(sorted) |-> Normalize(sorted[i])]]
    /\ UNCHANGED <<files, store, up, used, environ>>

(* ---------------------------- diagnostics ----------------------------- *)

MsgCut         == 50
CollectionsCut == 10

FlagSet    == <<"Set">>
FlagNotSet == <<"Not Set">>
Configured == <<"Configured">>
Connected  == <<"Connected">>
DbName     == <<"p", "r", "o", "d">>
DbUrl      == <<"m", "o", "n", "g", "o", ":", "/", "/", "h">>
ShortMsg   == <<"d", "o", "w", "n">>
LongMsg    == [i \in 1..(MsgCut + 1) |-> "x"]
ManyNames  == [i \in 1..(CollectionsCut + 1) |-> <<"c", i>>]

\* the exception classes that are ImportError or a subclass of it
ImportErrors == {"ImportError", "ModuleNotFoundError"}
\* the exception classes that are Exception or a subclass of it
Exceptions == ImportErrors \cup {"RuntimeError"}

\* what `from database import db` and the adapter may do on one call:
\* the import raises, or db is None, or db is a database object that may
\* or may not have a name and whose list_collection_names may raise
DbCases ==
    {[raises |-> c, msg |-> m, dbIsNone |-> TRUE, hasName |-> FALSE,
      listRaises |-> FALSE, collections |-> <<>>] :
        c \in {"ModuleNotFoundError", "RuntimeError"}, m \in {LongMsg}}
    \cup
    {[raises |-> "none", msg |-> <<>>, dbIsNone |-> TRUE, hasName |-> FALSE,
      listRaises |-> FALSE, collections |-> <<>>]}
    \cup
    {[raises |-> "none", msg |-> ShortMsg, dbIsNone |-> FALSE, hasName |-> h,
      listRaises |-> r, collections |-> ManyNames] :
        h \in BOOLEAN, r \in BOOLEAN}

\* lines 35-42
InitialResponse ==
    [backend |-> <<"Running">>, database |-> <<"Not Available">>,
     database_url |-> None, database_name |-> None,
     connection_status |-> <<"Not Connected">>, collections |-> <<>>]

\* lines 50-55: the collections are listed; a failure is caught here
ListCollections(response, case) ==
    IF case.listRaises
    THEN [response EXCEPT
            !.database = <<"Connected but Error: ">> \o Prefix(case.msg, MsgCut)]
    ELSE [response EXCEPT
            !.collections = Prefix(case.collections, CollectionsCut),
            !.database = <<"Connected & Working">>]

\* lines 44-57, the body of the try: the exception it raises ("none" when it
\* raises none) and the response it leaves
TryBody(response, case) ==
    IF case.raises # "none"
    THEN [exc |-> case.raises, response |-> response]
    ELSE IF ~case.dbIsNone
    THEN [exc |-> "none",
          response |-> ListCollections(
            [response EXCEPT
                !.database = <<"Available">>,
                !.database_url = Some(Configured),
                !.database_name = Some(IF case.hasName THEN DbName ELSE Connected),
                !.connection_status = Connected],
            case)]
    ELSE [exc |-> "none",
          response |-> [response EXCEPT !.database = <<"Available but not initialized">>]]

\* lines 58-61: the handlers of the try
HandlersImportErrorOnly(tried, case) ==
    IF tried.exc \in ImportErrors
    THEN [exc |-> "none",
          response |-> [tried.response EXCEPT !.database = <<"Database module not found">>]]
    ELSE tried

Handlers(tried, case) ==
    IF tried.exc \in ImportErrors
    THEN [exc |-> "none",
          response |-> [tried.response EXCEPT !.database = <<"Database module not found">>]]
    ELSE IF tried.exc \in Exceptions
    THEN [exc |-> "none",
          response |-> [tried.response EXCEPT
                          !.database = <<"Error: ">> \o Prefix(case.msg, MsgCut)]]
    ELSE tried

\* lines 63-64: the two presence flags
FlagsWhenUnset(response) ==
    [response EXCEPT
        !.database_url = IF @.isNone
            THEN Some(IF Truthy(environ.DATABASE_URL) THEN FlagSet ELSE FlagNotSet)
            ELSE @,
        !.database_name = IF @.isNone
            THEN Some(IF Truthy(environ.DATABASE_NAME) THEN FlagSet ELSE FlagNotSet)
            ELSE @]

Flags(response) ==
    [response EXCEPT
        !.database_url =
            Some(IF Truthy(environ.DATABASE_URL) THEN FlagSet ELSE FlagNotSet),
        !.database_name =
            Some(IF Truthy(environ.DATABASE_NAME) THEN FlagSet ELSE FlagNotSet)]

\* test_database: the status and the body of the response; an exception
\* that leaves the handler is answered with 500
TestDatabaseResponse(case) ==
    LET handled == Handlers(TryBody(InitialResponse, case), case)
    IN  IF handled.exc # "none"
        THEN [NoResponse EXCEPT !.op = "test", !.status = 500]
        ELSE [NoResponse EXCEPT !.op = "test", !.status = 200,
                                !.body = Some(Flags(handled.response))]

\* GET /test
TestDatabase ==
    /\ \E case \in DbCases : resp' = TestDatabaseResponse(case)
    /\ UNCHANGED <<files, store, up, used, environ>>

(* --------------------------- specification ---------------------------- *)

\* the environments the process may be started in: each variable unset,
\* set to the empty string, or set to a value
Environments ==
    {[DATABASE_URL |-> None, DATABASE_NAME |-> Some(DbName),
      PUBLIC_BACKEND_URL |-> Some(<<>>)],
     [DATABASE_URL |-> Some(DbUrl), DATABASE_NAME |-> Some(<<>>),
      PUBLIC_BACKEND_URL |-> Some(<<"h">>)]}

\* the state after the module is loaded: an empty uploads directory (line
\* 21), an empty collection, no request in flight
Init ==
    /\ files = [x \in {} |-> 0]
    /\ store = <<>>
    /\ up = [p \in Slots |-> Idle]
    /\ used = {}
    /\ resp = NoResponse
    /\ environ \in Environments

Next ==
    \/ \E p \in Slots : Receive(p)
    \/ \E p \in Slots : OpenFile(p)
    \/ \E p \in Slots : WriteFile(p)
    \/ \E p \in Slots : GetSize(p)
    \/ \E p \in Slots : SaveMetadata(p)
    \/ \E p \in Slots : Cleanup(p)
    \/ ListMedia
    \/ TestDatabase

Spec == Init /\ [][Next]_vars

(* ------------------------------ claims -------------------------------- *)

\* the records of the store that name the file `name`
RecordsNaming(name) == {i \in 1..Len(store) : store[i].filename = name}

\* a declared content type that starts with neither image/ nor video/,
\* a missing one included
Disallowed(ct) ==
    \/ ct.isNone
    \/ /\ ~StartsWith(ct.val, ImagePrefix)
       /\ ~StartsWith(ct.val, VideoPrefix)

\* the slot whose request takes the step
Steps(p) == up'[p] # up[p]

\* C1: in every reachable state, every record of the store has its backing
\* file in the storage directory.
C1_RecordHasFile ==
    \A i \in 1..Len(store) : store[i].filename \in DOMAIN files

\* C1 happens: a record is in the store while another upload has failed at
\* the metadata write and deleted its file.
C1_Witness ==
    /\ Len(store) >= 1
    /\ \E p \in Slots : up[p].detail = "database" /\ up[p].removed = "ok"

\* C2: an upload whose declared content type starts with neither image/ nor
\* video/ (or is missing) ends with 400 at once, having drawn no file name
\* and inserted no record, and the step that rejects it leaves the storage
\* directory and the store as they were.
C2_RejectedLeavesNoTrace ==
    /\ [](\A p \in Slots :
            (up[p].pc # "idle" /\ Disallowed(up[p].content_type))
                => /\ up[p].pc = "done"
                   /\ up[p].status = 400
                   /\ up[p].unique_name = <<>>
                   /\ up[p].inserted = 0)
    /\ [][\A p \in Slots :
            (Steps(p) /\ Disallowed(up'[p].content_type))
                => (files' = files /\ store' = store)]_vars

\* C2 happens: a text/plain upload was rejected while the directory holds
\* another upload's file.
C2_Witness ==
    /\ \E p \in Slots :
         up[p].content_type = Some(TextPlain) /\ up[p].status = 400
    /\ DOMAIN files # {}

\* C3: an upload whose metadata write failed after the file was written
\* has tried to delete the file and ends with 500 whether or not the
\* deletion succeeded; when it succeeded the file is gone; in both cases no
\* record names the file.
C3_MetadataFailureCleansUp ==
    \A p \in Slots :
        /\ up[p].pc = "cleanup" => RecordsNaming(up[p].unique_name) = {}
        /\ (up[p].pc = "done" /\ up[p].detail = "database")
             => /\ up[p].status = 500
                /\ up[p].removed \in {"ok", "failed"}
                /\ up[p].removed = "ok" => up[p].unique_name \notin DOMAIN files
                /\ RecordsNaming(up[p].unique_name) = {}

\* C3 happens: one upload failed at the metadata write and deleted its
\* file, another failed there and could not delete it.
C3_Witness ==
    \E p, q \in Slots :
        /\ up[p].detail = "database" /\ up[p].removed = "ok"
        /\ up[q].detail = "database" /\ up[q].removed = "failed"
        /\ up[q].unique_name \in DOMAIN files

\* C4: after an upload that ended with 400 or 500 and whose cleanup
\* deletion did not fail, the storage directory holds no file of that
\* upload.
C4_ErrorLeavesNoFile ==
    \A p \in Slots :
        (up[p].pc = "done" /\ up[p].status \in {400, 500} /\ up[p].removed # "failed")
            => up[p].unique_name \notin DOMAIN files

\* C5: no two uploads have the same file name; a step of one upload changes
\* no file but its own; and a successful upload has left its file, holding
\* its payload, and exactly one record, which names that file.
C5_UploadsAreIndependent ==
    /\ [](/\ \A p, q \in Slots :
                (p # q /\ up[p].unique_name # <<>>)
                    => up[p].unique_name # up[q].unique_name
          /\ \A p \in Slots :
                up[p].status = 200
                    => /\ up[p].unique_name \in DOMAIN files
                       /\ files[up[p].unique_name] = up[p].contents
                       /\ RecordsNaming(up[p].unique_name) = {up[p].inserted})
    /\ [][\A name \in DOMAIN files \cup DOMAIN files' :
            (\/ name \notin DOMAIN files
             \/ name \notin DOMAIN files'
             \/ files'[name] # files[name])
                => \E p \in Slots :
                     /\ Steps(p)
                     /\ up[p].unique_name = name
                     /\ \A q \in Slots \ {p} : up[q].unique_name # name]_vars

\* C5 happens: two uploads are in flight together, each with its file
\* written, and one of them has succeeded.
C5_Witness ==
    \E p, q \in Slots :
        /\ up[p].status = 200
        /\ up[q].pc = "db"
        /\ {up[p].unique_name, up[q].unique_name} \subseteq DOMAIN files

\* the texts the database field of a diagnostics response may hold
DatabaseTexts ==
    {<<"Database module not found">>,
     <<"Error: ">> \o Prefix(LongMsg, MsgCut),
     <<"Available but not initialized">>,
     <<"Connected & Working">>,
     <<"Connected but Error: ">> \o ShortMsg}

\* C6: the diagnostics operation always completes with a 200 status
\* object, whatever the import and the database do, and the failure is told
\* in the object's database field.
C6_DiagnosticsAlways200 ==
    resp.op = "test"
        => /\ resp.status = 200
           /\ ~resp.body.isNone
           /\ resp.body.val.database \in DatabaseTexts

\* C6 happens: the import raised an error other than ImportError, and the
\* response tells it, cut at 50 characters.
C6_Witness ==
    /\ resp.op = "test"
    /\ ~resp.body.isNone
    /\ resp.body.val.database = <<"Error: ">> \o [i \in 1..50 |-> "x"]

\* the items carry the same records as the fetched ones, each as often
SameRecords(items, fetched) ==
    /\ Len(items) = Len(fetched)
    /\ \A i \in 1..Len(fetched) :
         Cardinality({j \in 1..Len(items) : items[j] = Normalize(fetched[i])})
            = Cardinality({j \in 1..Len(fetched) : fetched[j] = fetched[i]})

\* C7: when the records were fetched the listing succeeds and returns
\* exactly the fetched records; when each of them has a creation timestamp
\* they are in descending order of it.
C7_ListingSorted ==
    (resp.op = "list" /\ ~resp.fetched.isNone)
        => /\ resp.status = 200
           /\ SameRecords(resp.items, resp.fetched.val)
           /\ (\A i \in 1..Len(resp.items) : ~resp.items[i].created_at.isNone)
                => \A i, j \in 1..Len(resp.items) :
                     i < j => resp.items[i].created_at.val >= resp.items[j].created_at.val

\* C7 happens: two records were fetched, the older one first, and the
\* listing returned them.
C7_Witness ==
    /\ resp.op = "list"
    /\ ~resp.fetched.isNone
    /\ Len(resp.fetched.val) = 2
    /\ ~resp.fetched.val[1].created_at.isNone
    /\ ~resp.fetched.val[2].created_at.isNone
    /\ resp.fetched.val[1].created_at.val < resp.fetched.val[2].created_at.val

\* C8: every record of the store has kind image or video: video exactly
\* when its content type starts with video/, image exactly when it starts
\* with image/; an upload with another content type has no record.
C8_KindIsImageOrVideo ==
    /\ \A i \in 1..Len(store) :
         /\ store[i].kind \in {"image", "video"}
         /\ store[i].kind = "video" <=> StartsWith(store[i].content_type, VideoPrefix)
         /\ store[i].kind = "image" <=> StartsWith(store[i].content_type, ImagePrefix)
    /\ \A p \in Slots :
         Disallowed(up[p].content_type) => up[p].inserted = 0

\* C8 happens: the store holds an image record and a video record.
C8_Witness ==
    \E i, j \in 1..Len(store) :
        store[i].kind = "image" /\ store[j].kind = "video"

\* the flag the diagnostics show for an environment variable: set means
\* set to a non-empty value, as os.getenv's result is tested for truth
PresenceFlag(v) == IF (~v.isNone) /\ Len(v.val) > 0 THEN FlagSet ELSE FlagNotSet

\* C9: in every diagnostics response the database_url and database_name
\* fields are the presence flags of DATABASE_URL and DATABASE_NAME, and
\* never the URL, the name of the database or the value of the variable.
C9_FlagsNotValues ==
    (resp.op = "test" /\ ~resp.body.isNone)
        => /\ resp.body.val.database_url = Some(PresenceFlag(environ.DATABASE_URL))
           /\ resp.body.val.database_name = Some(PresenceFlag(environ.DATABASE_NAME))
           /\ resp.body.val.database_url \notin {Some(DbUrl), environ.DATABASE_URL}
           /\ resp.body.val.database_name \notin {Some(DbName), environ.DATABASE_NAME}

\* C9 happens: the database is connected, DATABASE_NAME holds the name of
\* the database, and the diagnostics answered.
C9_Witness ==
    /\ resp.op = "test"
    /\ ~resp.body.isNone
    /\ resp.body.val.connection_status = Connected
    /\ environ.DATABASE_NAME = Some(DbName)

\* C10: a record in the store is never changed or removed and keeps the
\* identifier the store gave it; its file stays as it is; only an upload
\* that ends with 200 adds a record; listing and diagnostics change neither
\* the store nor the directory nor an upload.
C10_RecordsAreImmutable ==
    /\ [](\A i \in 1..Len(store) : store[i]._id = [oid |-> i])
    /\ [][/\ resp'.op = "none" \/ (files' = files /\ store' = store /\ up' = up)
          /\ \/ files' = files /\ store' = store
             \/ /\ Len(store') >= Len(store)
                /\ SubSeq(store', 1, Len(store)) = store
                /\ \A i \in 1..Len(store) :
                      /\ store[i].filename \in DOMAIN files
                      /\ store[i].filename \in DOMAIN files'
                      /\ files'[store[i].filename] = files[store[i].filename]
                /\ store' # store
                      => /\ Len(store') = Len(store) + 1
                         /\ \E p \in Slots :
                              /\ up[p].pc = "db"
                              /\ up'[p].status = 200
                              /\ store'[Len(store')].filename = up[p].unique_name]_vars

\* C10 happens: a record is in the store, a later upload has failed and
\* cleaned up, and the records were listed with their identifiers as text.
C10_Witness ==
    /\ Len(store) >= 1
    /\ \E p \in Slots : up[p].status = 500 /\ up[p].removed = "ok"
    /\ resp.op = "list"
    /\ Len(resp.items) >= 1
    /\ resp.items[1]._id = [str |-> store[1]._id.oid]

====
